---- MODULE Spec2Model ----
(***************************************************************************)
(* TurnaPlay: the team-membership and invite engine.                       *)
(*                                                                         *)
(* The state is the content of the four tables the engine works on         *)
(* (tournament_registration, team_member, tournament_invite, game_account) *)
(* plus, for every request-handling worker, the request it is serving and  *)
(* the statement it has reached.  Every view of                            *)
(* tournament_invite/views.py, tournament_registration/views.py and        *)
(* game_account/views.py that changes these tables is an operation; a view *)
(* that issues several statements is a sequence of steps of one worker, so *)
(* that two workers interleave between the statements exactly where the    *)
(* database lets them (autocommit: between any two statements; inside      *)
(* @transaction.atomic: the reads see what is committed when they run, the *)
(* writes become visible together at the commit).                          *)
(***************************************************************************)
EXTENDS Integers, FiniteSets, Sequences, TLC

\* ------------------------------------------------------------------ bounds
MaxTeams == 2
\* invite rows while the tournament is open and every account is active
MaxInvites == 2
\* invite rows once the tournament is closed or an account is deactivated
MaxInvitesElse == 1
MaxTeamSize == 2
MaxInactive == 1

\* ---------------------------------------------------------------- universe
Users == {"u1", "u2", "u3"}
Workers == {1, 2}
TeamNames == {"Alpha", "Bravo"}
TheTournament == "q1"
\* game of the tournament's format (TournamentFormat.game)
FormatGame == "g1"

\* game_account rows: id, owner and game never change; `active` is state.
GameAccountRows ==
    { [id |-> "a1", user |-> "u1", game |-> "g1"],
      [id |-> "a2", user |-> "u2", game |-> "g1"],
      [id |-> "a3", user |-> "u3", game |-> "g1"],
      [id |-> "x2", user |-> "u2", game |-> "g2"] }
GameAccountIds == { r.id : r \in GameAccountRows }
GaRow(g) == CHOOSE r \in GameAccountRows : r.id = g
GaUser(g) == GaRow(g).user
\* (variant: every account passes for one of the tournament's game)
GaGame_any(g) == FormatGame
GaGame(g) == GaRow(g).game

VARIABLES
    teams,        \* tournament_registration rows [id, tournament, team_name, status]
    members,      \* team_member rows [team, ga, is_leader, order]
    invites,      \* tournament_invite rows [id, user, team, status]
    ga_active,    \* game_account.active, by account id
    t_open,       \* whether the tournament's registration is open (its date has not passed)
    team_size,    \* TournamentFormat.team_size of the tournament's format
    accounts,     \* game_account rows [id, user, game, ingame_name, active] that
                  \* game_accounts_list_create has made
    wk            \* per worker: the request being served and the statement reached

vars == <<teams, members, invites, ga_active, t_open, team_size, accounts, wk>>
db == <<teams, members, invites, ga_active>>

\* ------------------------------------------------------------- row helpers
TeamIds(tms) == { r.id : r \in tms }
TeamRow(tms, id) == CHOOSE r \in tms : r.id = id
InviteIds(ivs) == { r.id : r \in ivs }
InviteRow(ivs, id) == CHOOSE r \in ivs : r.id = id

\* TeamMember.objects.filter(team=team)
MembersOf(ms, t) == { r \in ms : r.team = t }
\* (variant: a count that misses every row)
member_count_zero(ms, t) == 0
\* TeamMember.objects.filter(team=team).count()
member_count(ms, t) == Cardinality(MembersOf(ms, t))
\* (variant: only the rows of active accounts are counted)
MembershipsIn_active(tms, ms, u, q) ==
    { r \in ms : GaUser(r.ga) = u /\ ga_active[r.ga]
                 /\ \E t \in tms : t.id = r.team /\ t.tournament = q }
\* TeamMember.objects.filter(game_account__user=user, team__tournament=tournament)
MembershipsIn(tms, ms, u, q) ==
    { r \in ms : GaUser(r.ga) = u /\ \E t \in tms : t.id = r.team /\ t.tournament = q }

\* (variant: any member of the team counts as its leader)
_is_leader_member(ms, u, t) == \E r \in ms : r.team = t /\ GaUser(r.ga) = u
\* _is_leader / _is_user_team_leader
_is_leader(ms, u, t) == \E r \in ms : r.team = t /\ r.is_leader /\ GaUser(r.ga) = u
\* _is_user_in_team
_is_user_in_team(ms, u, t) == \E r \in ms : r.team = t /\ GaUser(r.ga) = u

\* ------------------------------------------------- tournament and format
\* TournamentInvite._is_tournament_active.  `annotated` says whether the
\* Tournament instance carries the manager's is_active annotation: a
\* tournament reached through the foreign keys invite -> team -> tournament
\* is loaded by the base manager and carries none, so the views always get
\* the last fallback (True); the test-suite sets the attribute by hand.
_is_tournament_active(annotated, open) == IF annotated THEN open ELSE TRUE

\* TournamentInvite.team_has_capacity
team_has_capacity(ms, t) == member_count(ms, t) < team_size

\* ------------------------------------------------------------ TeamMember
\* order = models.PositiveSmallIntegerField(default=0)
DefaultOrder == 0

\* TeamMember(team=..., game_account=..., is_leader=...): no caller passes order
NewTeamMember(t, g, leader) ==
    [team |-> t, ga |-> g, is_leader |-> leader, order |-> DefaultOrder]

\* What the bare name `is_leader` evaluates to in TeamMember.clean: the
\* method has no such local and the module no such global, so evaluating it
\* raises NameError (defined = FALSE).
clean_is_leader_self(m) == [defined |-> TRUE, value |-> m.is_leader]
clean_is_leader(m) == [defined |-> FALSE, value |-> FALSE]

\* TeamMember.clean for an instance not yet saved (pk is None: nothing is
\* excluded from the queries).  The result is "ok", the ValidationError
\* raised, or "NameError".
TeamMember_clean(tms, ms, m) ==
    LET conflict == MembershipsIn(tms, ms, GaUser(m.ga), TheTournament) # {}
        leader_count == Cardinality({ r \in ms : r.team = m.team /\ r.is_leader })
                        + (IF m.is_leader THEN 1 ELSE 0)
        max_members == team_size
        count == member_count(ms, m.team)
        il == clean_is_leader(m)
    IN  IF conflict THEN "AlreadyMember"
        ELSE IF leader_count = 0 THEN "MissingLeader"
        ELSE IF leader_count > 1 THEN "DuplicateLeader"
        ELSE IF count + 1 > max_members THEN "CapacityExceeded"
        ELSE IF m.order >= max_members THEN "OrderTooLarge"
        ELSE IF m.order = 0 /\ ~il.defined THEN "NameError"
        ELSE IF m.order = 0 /\ ~il.value THEN "OrderZeroNotLeader"
        ELSE IF ~il.defined THEN "NameError"
        ELSE IF il.value /\ m.order # 0 THEN "LeaderOrderNotZero"
        ELSE "ok"

\* Model.full_clean on a TeamMember: clean_fields (the team must exist),
\* clean, and the validation of Meta.constraints (team, order).  A
\* ValidationError of clean_fields is collected, clean still runs, and a
\* NameError raised there propagates.
TeamMember_full_clean(tms, ms, m) ==
    LET c == TeamMember_clean(tms, ms, m)
    IN  IF c = "NameError" THEN "NameError"
        ELSE IF m.team \notin TeamIds(tms) THEN "TeamMissing"
        ELSE IF c # "ok" THEN c
        ELSE IF \E r \in ms : r.team = m.team /\ r.order = m.order THEN "UniqueOrder"
        ELSE "ok"

\* member.save(): the INSERT, under the foreign key to the team and the
\* unique constraint unique_member_order_in_a_team.
TeamMember_insert_ok(tms, ms, m) ==
    /\ m.team \in TeamIds(tms)
    /\ ~ \E r \in ms : r.team = m.team /\ r.order = m.order

\* The errors of TeamMember.full_clean that are ValidationErrors
MemberValidationErrors ==
    { "AlreadyMember", "MissingLeader", "DuplicateLeader", "CapacityExceeded",
      "OrderTooLarge", "OrderZeroNotLeader", "LeaderOrderNotZero", "TeamMissing",
      "UniqueOrder" }

\* ------------------------------------------------------ TournamentInvite
\* TournamentInvite.clean: the ValidationError raised, or "ok"
TournamentInvite_clean(tms, ms, act, inv, annotated) ==
    LET closed == ~ _is_tournament_active(annotated, t_open)
        full == ~ team_has_capacity(ms, inv.team)
        user_ga_qs == { g \in GameAccountIds : GaUser(g) = inv.user /\ act[g] }
        joined == \E r \in ms : r.ga \in user_ga_qs
                               /\ \E t \in tms : t.id = r.team /\ t.tournament = TheTournament
    IN  IF full THEN "TeamFull"
        ELSE IF closed THEN "Closed"
        ELSE IF joined THEN "AlreadyMember"
        ELSE "ok"

\* Model.full_clean on a TournamentInvite, as TournamentInvite.save runs it
\* before every INSERT and UPDATE: clean_fields (the team must exist), clean
\* and the validation of unique_pending_invite_per_user_and_team.
TournamentInvite_full_clean(tms, ms, ivs, act, inv, annotated) ==
    LET c == TournamentInvite_clean(tms, ms, act, inv, annotated)
    IN  IF inv.team \notin TeamIds(tms) THEN "TeamMissing"
        ELSE IF c # "ok" THEN c
        ELSE IF inv.status = "pending"
                /\ \E r \in ivs : r.id # inv.id /\ r.user = inv.user
                                   /\ r.team = inv.team /\ r.status = "pending"
             THEN "DuplicatePending"
        ELSE "ok"

\* (variant: the INSERT of an invite without the partial unique index)
TournamentInvite_insert_fk_only(tms, ivs, inv) == inv.team \in TeamIds(tms)

\* (variant: the unique index covers the invites of every status)
TournamentInvite_insert_unique_any_status(tms, ivs, inv) ==
    /\ inv.team \in TeamIds(tms)
    /\ ~ \E r \in ivs : r.user = inv.user /\ r.team = inv.team

\* The INSERT of an invite, under the foreign key to the team and the
\* partial unique index unique_pending_invite_per_user_and_team.
TournamentInvite_insert_ok(tms, ivs, inv) ==
    /\ inv.team \in TeamIds(tms)
    /\ ~ (inv.status = "pending"
          /\ \E r \in ivs : r.user = inv.user /\ r.team = inv.team /\ r.status = "pending")

\* (variant: a team that is not over its size is valid)
new_status_not_over(ms, t) == IF member_count(ms, t) <= team_size THEN "valid" ELSE "invalid"

\* _recompute_team_status: the status the team gets
new_status(ms, t) == IF member_count(ms, t) = team_size THEN "valid" ELSE "invalid"

\* (variant: the status is left as it was)
_recompute_skipped(tms, ms, t, loaded) == tms

\* _recompute_team_status(team) for a team instance loaded with status
\* `loaded`: the rows after it; the UPDATE is issued only when the loaded
\* status differs.
_recompute_team_status(tms, ms, t, loaded) ==
    IF loaded # new_status(ms, t)
    THEN { IF r.id = t THEN [r EXCEPT !.status = new_status(ms, t)] ELSE r : r \in tms }
    ELSE tms

\* ---------------------------------------------------------------- workers
\* A worker that serves no request.  While a request is served the record
\* holds its arguments and what its statements have loaded; of a served
\* request (pc = "done") it holds the view and the response (out) until the
\* worker hands the response over.  `pre` is a history field: what held of
\* an accept request when it arrived (see AcceptTags).
Idle ==
    [pc |-> "idle", op |-> "-", user |-> "-", inv |-> 0, ga |-> "-", team |-> 0,
     tgt |-> "-", name |-> "-", game |-> "-", st |-> "-", tst |-> "-", out |-> "-",
     pre |-> {}]

Free(w) == wk[w].pc = "idle"

Request(op, pre) == [Idle EXCEPT !.op = op, !.pre = pre]

\* the response of a finished request
Done(r, outcome) ==
    [Idle EXCEPT !.pc = "done", !.op = r.op, !.out = outcome, !.pre = r.pre]
\* the response of a finished accept, with the invite it named
DoneAccept(r, outcome) == [Done(r, outcome) EXCEPT !.inv = r.inv]

\* ------------------------------------------------------------------- Init
\* The tables as loaded before the workers start.  Rows are inserted through
\* the ORM outside the views (TeamMember.objects.create, which runs no
\* full_clean, as create_team of tournament_invite/tests.py does), so the
\* load is any content that satisfies what the models declare: every team has its leader at order 0
\* and followers at distinct orders 1..team_size-1, a user is in at most one
\* team of the tournament, team names differ, the status of a team says
\* whether it is complete, at most one invite is pending per (user, team),
\* nobody is invited to the team they lead, an accepted invite belongs to a
\* follower of its team and a pending one to a user outside of it.
G1Accounts == { g \in GameAccountIds : GaGame(g) = FormatGame }
TeamNameSeq == <<"Alpha", "Bravo", "Charlie", "Delta">>
\* the account that leads the t-th loaded team (the users are interchangeable)
LeaderSeq == <<"a1", "a2", "a3">>

RosterOf(slot) ==
    { [team |-> slot[g][1], ga |-> g, is_leader |-> (slot[g][2] = 0), order |-> slot[g][2]]
        : g \in { h \in DOMAIN slot : slot[h] # <<0, 0>> } }

InitRosters(nt, size) ==
    LET Slots == {<<0, 0>>} \cup ((1..nt) \X (0..(size - 1)))
    IN  { ms \in { RosterOf(slot) : slot \in [G1Accounts -> Slots] } :
            /\ \A t \in 1..nt : { r.ga : r \in { x \in ms : x.team = t /\ x.order = 0 } }
                                    = {LeaderSeq[t]}
            /\ \A r1, r2 \in ms : (r1.team = r2.team /\ r1.order = r2.order) => r1 = r2 }

InitTeams(nt, ms, size) ==
    { [id |-> t, tournament |-> TheTournament, team_name |-> TeamNameSeq[t],
       status |-> IF Cardinality({ r \in ms : r.team = t }) = size THEN "valid" ELSE "invalid"]
        : t \in 1..nt }

InviteRowOk(ms, r) ==
    /\ ~ _is_leader(ms, r.user, r.team)
    /\ r.status = "pending" => ~ _is_user_in_team(ms, r.user, r.team)
    /\ r.status = "accepted" => _is_user_in_team(ms, r.user, r.team)

InitInvites(nt, ms, maxn) ==
    LET Rows(i) == { r \in [id : {i}, user : Users, team : 1..nt,
                            status : {"pending", "accepted", "rejected"}] : InviteRowOk(ms, r) }
        Sets(k) == { { f[i] : i \in 1..k } : f \in { f \in [1..k -> UNION { Rows(i) : i \in 1..k }] :
                                                       \A i \in 1..k : f[i].id = i } }
    IN  { ivs \in UNION { Sets(k) : k \in 0..maxn } :
            \A r1, r2 \in ivs :
                 (r1.user = r2.user /\ r1.team = r2.team
                  /\ r1.status = "pending" /\ r2.status = "pending") => r1 = r2 }

InitTables(sizes, maxn) ==
    /\ team_size \in sizes
    /\ \E nt \in 0..MaxTeams :
         /\ members \in InitRosters(nt, team_size)
         /\ teams = InitTeams(nt, members, team_size)
         /\ invites \in InitInvites(nt, members, maxn)
    /\ ga_active = [g \in GameAccountIds |-> TRUE]
    /\ accounts = {}
    /\ wk = [w \in Workers |-> Idle]

Init ==
    \/ t_open = TRUE /\ InitTables(1..MaxTeamSize, MaxInvites)
    \/ t_open = FALSE /\ InitTables(1..MaxTeamSize, MaxInvitesElse)

\* Two workers, full-size teams, registration open
InitConc ==
    /\ t_open = TRUE
    /\ InitTables({MaxTeamSize}, MaxInvites)

\* Primary keys are uuid4 values: a new row gets a key that no row has and
\* no worker holds.  Which one is immaterial, so it is the least such key;
\* requests name any key, of a row or not.
InviteKeys == 1..MaxInvites
TeamKeys == 1..MaxTeams
Least(S) == CHOOSE k \in S : \A j \in S : k <= j
FreeInviteKeys == InviteKeys \ (InviteIds(invites) \cup { wk[w].inv : w \in Workers })
FreeTeamKeys == TeamKeys \ (TeamIds(teams) \cup { wk[w].team : w \in Workers })
Inserting(pcs) == Cardinality({ w \in Workers : wk[w].pc \in pcs })

\* the number of invite rows the exploration goes up to
InviteBound ==
    IF t_open /\ \A g \in GameAccountIds : ga_active[g] THEN MaxInvites ELSE MaxInvitesElse

UnchangedConfig == UNCHANGED <<t_open, team_size, accounts>>

\* ----------------------------------------------------------- history (pre)
\* What held of an accept request when it arrived.
\* "valid": the invite is pending and addressed to u, its team has a leader
\* and a free slot, the account is an active one of u for the tournament's
\* game, the tournament is open and u is in no team of the tournament.
AcceptableNow(u, i, g) ==
    \E v \in invites :
        /\ v.id = i /\ v.user = u /\ v.status = "pending"
        /\ \E m \in members : m.team = v.team /\ m.is_leader
        /\ Cardinality({ m \in members : m.team = v.team }) < team_size
        /\ GaUser(g) = u /\ ga_active[g] /\ GaGame(g) = FormatGame
        /\ t_open
        /\ \A m \in members : GaUser(m.ga) # u

\* "full": the invite is pending and addressed to u, the tournament is open
\* and the team of the invite has team_size members or more.
FullNow(u, i) ==
    \E v \in invites :
        /\ v.id = i /\ v.user = u /\ v.status = "pending"
        /\ t_open
        /\ Cardinality({ m \in members : m.team = v.team }) >= team_size

\* "joined": the invite is pending and addressed to u, and u is a member of
\* another team of the tournament.
JoinedNow(u, i) ==
    \E v \in invites :
        /\ v.id = i /\ v.user = u /\ v.status = "pending"
        /\ \E m \in members : GaUser(m.ga) = u /\ m.team # v.team

\* "badga": the invite is pending and addressed to u, and the account is
\* not owned by u, or is deactivated, or is of another game than the
\* tournament's.
BadAccountNow(u, i, g) ==
    /\ \E v \in invites : v.id = i /\ v.user = u /\ v.status = "pending"
    /\ \/ GaRow(g).user # u
       \/ ~ga_active[g]
       \/ GaRow(g).game # FormatGame

\* "closed": as "valid", but the tournament is closed.
ClosedNow(u, i, g) ==
    \E v \in invites :
        /\ v.id = i /\ v.user = u /\ v.status = "pending"
        /\ \E m \in members : m.team = v.team /\ m.is_leader
        /\ Cardinality({ m \in members : m.team = v.team }) < team_size
        /\ GaRow(g).user = u /\ ga_active[g] /\ GaRow(g).game = FormatGame
        /\ ~t_open
        /\ \A m \in members : GaUser(m.ga) # u

\* "rejected": the invite is rejected.
RejectedNow(i) == \E v \in invites : v.id = i /\ v.status = "rejected"

AcceptTags(u, i, g) ==
    (IF AcceptableNow(u, i, g) THEN {"valid"} ELSE {})
    \cup (IF FullNow(u, i) THEN {"full"} ELSE {})
    \cup (IF JoinedNow(u, i) THEN {"joined"} ELSE {})
    \cup (IF BadAccountNow(u, i, g) THEN {"badga"} ELSE {})
    \cup (IF ClosedNow(u, i, g) THEN {"closed"} ELSE {})
    \cup (IF RejectedNow(i) THEN {"rejected"} ELSE {})

\* "other": the invite is pending and addressed to another user than u;
\* "own_account": the account is an active one of u for the tournament's game.
OtherUserTags(u, i, g) ==
    IF \E v \in invites : v.id = i /\ v.status = "pending" /\ v.user # u
    THEN {"other"} \cup (IF GaRow(g).user = u /\ ga_active[g] /\ GaRow(g).game = FormatGame
                         THEN {"own_account"} ELSE {})
    ELSE {}

AcceptOps == {"api_accept_invite", "TournamentInvite.accept"}

\* (variant: the invite is looked up by its key alone)
api_accept_invite_any_user(w, u, i, g) ==
    /\ Free(w)
    /\ LET r == [Request("api_accept_invite", AcceptTags(u, i, g) \cup OtherUserTags(u, i, g))
                   EXCEPT !.user = u, !.inv = i, !.ga = g]
           found == \E v \in invites : v.id = i
           v == InviteRow(invites, i)
           current_members == member_count(members, v.team)
       IN  wk' = [wk EXCEPT ![w] =
                 IF ~found THEN DoneAccept(r, "InviteNotFound")
                 ELSE IF v.status # "pending" THEN DoneAccept(r, "AlreadyProcessed")
                 ELSE IF current_members >= team_size THEN DoneAccept(r, "TeamFull")
                 ELSE IF ~(GaUser(g) = u /\ ga_active[g]) THEN DoneAccept(r, "GameAccountNotFound")
                 ELSE IF GaGame(g) # FormatGame THEN DoneAccept(r, "GameMismatch")
                 ELSE [r EXCEPT !.pc = "accept_clean", !.team = v.team,
                                !.tst = TeamRow(teams, v.team).status]]
    /\ UNCHANGED <<teams, members, invites, ga_active>>
    /\ UnchangedConfig

\* ------------------------------------------------- api_accept_invite (view)
\* Lines 200-219: the invite of the requesting user is loaded, then the
\* status, the capacity, the game account and its game are checked.
api_accept_invite(w, u, i, g) ==
    /\ Free(w)
    /\ LET r == [Request("api_accept_invite", AcceptTags(u, i, g) \cup OtherUserTags(u, i, g))
                   EXCEPT !.user = u, !.inv = i, !.ga = g]
           found == \E v \in invites : v.id = i /\ v.user = u
           v == CHOOSE v \in invites : v.id = i /\ v.user = u
           current_members == member_count(members, v.team)
       IN  wk' = [wk EXCEPT ![w] =
                 IF ~found THEN DoneAccept(r, "InviteNotFound")
                 ELSE IF v.status # "pending" THEN DoneAccept(r, "AlreadyProcessed")
                 ELSE IF current_members >= team_size THEN DoneAccept(r, "TeamFull")
                 ELSE IF ~(GaUser(g) = u /\ ga_active[g]) THEN DoneAccept(r, "GameAccountNotFound")
                 ELSE IF GaGame(g) # FormatGame THEN DoneAccept(r, "GameMismatch")
                 ELSE [r EXCEPT !.pc = "accept_clean", !.team = v.team,
                                !.tst = TeamRow(teams, v.team).status]]
    /\ UNCHANGED <<teams, members, invites, ga_active>>
    /\ UnchangedConfig

\* What the statements after member.full_clean() write, on the rows the
\* transaction sees: member.save(), invite.save(update_fields=["status"])
\* (TournamentInvite.save runs full_clean first) and, in the view,
\* _recompute_team_status.  The result is the outcome and the rows to
\* commit; any exception rolls the transaction back.
AcceptWrites(tms, ms, ivs, act, m, inst, loaded, annotated, recompute) ==
    LET ms2 == ms \cup {m}
        found == \E v \in ivs : v.id = inst.id
        v2 == [inst EXCEPT !.status = "accepted"]
        ic == TournamentInvite_full_clean(tms, ms2, ivs, act, v2, annotated)
        ivs2 == { IF v.id = inst.id THEN v2 ELSE v : v \in ivs }
        tms2 == IF recompute THEN _recompute_team_status(tms, ms2, m.team, loaded) ELSE tms
        fail(e) == [out |-> e, teams |-> tms, members |-> ms, invites |-> ivs]
    IN  IF ~TeamMember_insert_ok(tms, ms, m) THEN fail("IntegrityError")
        ELSE IF ic # "ok" THEN fail("InviteValidationError")
        ELSE IF ~found THEN fail("DatabaseError")
        ELSE [out |-> "ok", teams |-> tms2, members |-> ms2, invites |-> ivs2]

\* (variant: an acceptance that validates nothing and gives the member the
\* least order no member of the team has)
api_accept_invite_add_unvalidated(w) ==
    /\ wk[w].op = "api_accept_invite"
    /\ wk[w].pc \in {"accept_clean", "accept_save"}
    /\ LET r == wk[w]
           free == (0..(MaxTeamSize + 2)) \ { m.order : m \in MembersOf(members, r.team) }
           member == [NewTeamMember(r.team, r.ga, FALSE)
                        EXCEPT !.order = CHOOSE k \in free : \A j \in free : k <= j]
           ms2 == members \cup {member}
       IN  /\ members' = ms2
           /\ invites' = { IF v.id = r.inv THEN [v EXCEPT !.status = "accepted"] ELSE v
                             : v \in invites }
           /\ teams' = _recompute_team_status(teams, ms2, r.team, r.tst)
           /\ wk' = [wk EXCEPT ![w] = DoneAccept(r, "ok")]
    /\ UNCHANGED ga_active
    /\ UnchangedConfig

\* Lines 222-234: member.full_clean() (pc = "accept_clean"), and when it
\* passes the writes and the commit (pc = "accept_save").  A ValidationError
\* is answered with status 400, any other exception rolls back.
api_accept_invite_add(w) ==
    /\ wk[w].op = "api_accept_invite"
    /\ wk[w].pc \in {"accept_clean", "accept_save"}
    /\ LET r == wk[w]
           member == NewTeamMember(r.team, r.ga, FALSE)
           c == TeamMember_full_clean(teams, members, member)
           inst == [id |-> r.inv, user |-> r.user, team |-> r.team, status |-> "pending"]
           res == AcceptWrites(teams, members, invites, ga_active, member, inst,
                               r.tst, FALSE, TRUE)
       IN  IF r.pc = "accept_clean"
           THEN /\ wk' = [wk EXCEPT ![w] = IF c = "ok" THEN [r EXCEPT !.pc = "accept_save"]
                                                       ELSE DoneAccept(r, c)]
                /\ UNCHANGED <<teams, members, invites>>
           ELSE /\ wk' = [wk EXCEPT ![w] = DoneAccept(r, res.out)]
                /\ teams' = res.teams
                /\ members' = res.members
                /\ invites' = res.invites
    /\ UNCHANGED <<ga_active>>
    /\ UnchangedConfig

\* ------------------------------------ TournamentInvite.accept (model method)
\* Called on an invite instance by the test-suite, whose tournament
\* instance carries is_active.  Lines 164-181: the checks before the member
\* is built.
TournamentInvite_accept(w, i, g) ==
    /\ Free(w)
    /\ \E v \in invites : v.id = i
    /\ LET v == InviteRow(invites, i)
           r == [Request("TournamentInvite.accept",
                         AcceptTags(v.user, i, g) \cup OtherUserTags(GaRow(g).user, i, g))
                   EXCEPT !.user = v.user, !.inv = i, !.ga = g, !.team = v.team]
       IN  wk' = [wk EXCEPT ![w] =
                 IF v.status # "pending" THEN DoneAccept(r, "NotPending")
                 ELSE IF ~ _is_tournament_active(TRUE, t_open) THEN DoneAccept(r, "Closed")
                 ELSE IF ~ team_has_capacity(members, v.team) THEN DoneAccept(r, "TeamFull")
                 ELSE IF GaUser(g) # v.user \/ ~ga_active[g] THEN DoneAccept(r, "InvalidAccount")
                 ELSE IF GaGame(g) # FormatGame THEN DoneAccept(r, "GameMismatch")
                 ELSE [r EXCEPT !.pc = "accept_clean"]]
    /\ UNCHANGED <<teams, members, invites, ga_active>>
    /\ UnchangedConfig

\* Lines 183-196: member.full_clean(), member.save(), self.save()
TournamentInvite_accept_add(w) ==
    /\ wk[w].op = "TournamentInvite.accept"
    /\ wk[w].pc \in {"accept_clean", "accept_save"}
    /\ LET r == wk[w]
           member == NewTeamMember(r.team, r.ga, FALSE)
           c == TeamMember_full_clean(teams, members, member)
           inst == [id |-> r.inv, user |-> r.user, team |-> r.team, status |-> "pending"]
           res == AcceptWrites(teams, members, invites, ga_active, member, inst,
                               "-", TRUE, FALSE)
       IN  IF r.pc = "accept_clean"
           THEN /\ wk' = [wk EXCEPT ![w] = IF c = "ok" THEN [r EXCEPT !.pc = "accept_save"]
                                                       ELSE DoneAccept(r, c)]
                /\ UNCHANGED <<teams, members, invites>>
           ELSE /\ wk' = [wk EXCEPT ![w] = DoneAccept(r, res.out)]
                /\ teams' = res.teams
                /\ members' = res.members
                /\ invites' = res.invites
    /\ UNCHANGED <<ga_active>>
    /\ UnchangedConfig

\* --------------------------------------- the two acceptances, as functions
\* What a call gives on the current rows when nothing else runs between its
\* statements: the outcome and the rows it commits.
\* (variant: the view validates nothing and gives the member the least
\* order no member of the team has)
api_accept_invite_result_unvalidated(u, i, g) ==
    LET v == InviteRow(invites, i)
        free == (0..(MaxTeamSize + 2)) \ { m.order : m \in MembersOf(members, v.team) }
        member == [NewTeamMember(v.team, g, FALSE)
                     EXCEPT !.order = CHOOSE k \in free : \A j \in free : k <= j]
        ms2 == members \cup {member}
    IN  [out |-> "ok",
         teams |-> _recompute_team_status(teams, ms2, v.team, TeamRow(teams, v.team).status),
         members |-> ms2,
         invites |-> { IF x.id = i THEN [x EXCEPT !.status = "accepted"] ELSE x
                         : x \in invites }]

\* api_accept_invite, lines 190-234
api_accept_invite_result(u, i, g) ==
    LET found == \E x \in invites : x.id = i /\ x.user = u
        v == InviteRow(invites, i)
        current_members == member_count(members, v.team)
        member == NewTeamMember(v.team, g, FALSE)
        c == TeamMember_full_clean(teams, members, member)
        inst == [id |-> i, user |-> u, team |-> v.team, status |-> "pending"]
        fail(e) == [out |-> e, teams |-> teams, members |-> members, invites |-> invites]
    IN  IF ~found THEN fail("InviteNotFound")
        ELSE IF v.status # "pending" THEN fail("AlreadyProcessed")
        ELSE IF current_members >= team_size THEN fail("TeamFull")
        ELSE IF ~(GaUser(g) = u /\ ga_active[g]) THEN fail("GameAccountNotFound")
        ELSE IF GaGame(g) # FormatGame THEN fail("GameMismatch")
        ELSE IF c # "ok" THEN fail(c)
        ELSE AcceptWrites(teams, members, invites, ga_active, member, inst,
                          TeamRow(teams, v.team).status, FALSE, TRUE)

\* TournamentInvite.accept, lines 153-196, on the invite with key i
TournamentInvite_accept_result(i, g) ==
    LET v == InviteRow(invites, i)
        member == NewTeamMember(v.team, g, FALSE)
        c == TeamMember_full_clean(teams, members, member)
        inst == [id |-> i, user |-> v.user, team |-> v.team, status |-> "pending"]
        fail(e) == [out |-> e, teams |-> teams, members |-> members, invites |-> invites]
    IN  IF v.status # "pending" THEN fail("NotPending")
        ELSE IF ~ _is_tournament_active(TRUE, t_open) THEN fail("Closed")
        ELSE IF ~ team_has_capacity(members, v.team) THEN fail("TeamFull")
        ELSE IF GaUser(g) # v.user \/ ~ga_active[g] THEN fail("InvalidAccount")
        ELSE IF GaGame(g) # FormatGame THEN fail("GameMismatch")
        ELSE IF c # "ok" THEN fail(c)
        ELSE AcceptWrites(teams, members, invites, ga_active, member, inst,
                          "-", TRUE, FALSE)

\* ------------------------------------------------------- api_reject_invite
\* What held when the request arrived: "rejected", see RejectedNow
RejectTags(u, i) == IF RejectedNow(i) THEN {"rejected"} ELSE {}

\* (variant: the status of the invite is not checked)
api_reject_invite_unchecked(w, u, i) ==
    /\ Free(w)
    /\ LET r == [Request("api_reject_invite", RejectTags(u, i)) EXCEPT !.user = u, !.inv = i]
           found == \E v \in invites : v.id = i /\ v.user = u
           v == CHOOSE v \in invites : v.id = i /\ v.user = u
       IN  wk' = [wk EXCEPT ![w] =
                 IF ~found THEN Done(r, "InviteNotFound")
                 ELSE [r EXCEPT !.pc = "reject_save", !.team = v.team]]
    /\ UNCHANGED <<teams, members, invites, ga_active>>
    /\ UnchangedConfig

\* (variant: the invite is looked up by its key alone)
api_reject_invite_any_user(w, u, i) ==
    /\ Free(w)
    /\ LET r == [Request("api_reject_invite", RejectTags(u, i)) EXCEPT !.user = u, !.inv = i]
           found == \E v \in invites : v.id = i
           v == InviteRow(invites, i)
       IN  wk' = [wk EXCEPT ![w] =
                 IF ~found THEN Done(r, "InviteNotFound")
                 ELSE IF v.status # "pending" THEN Done(r, "AlreadyProcessed")
                 ELSE [r EXCEPT !.pc = "reject_save", !.team = v.team]]
    /\ UNCHANGED <<teams, members, invites, ga_active>>
    /\ UnchangedConfig

\* Lines 247-251: the invite of the requesting user is loaded and its status
\* checked.
api_reject_invite(w, u, i) ==
    /\ Free(w)
    /\ LET r == [Request("api_reject_invite", RejectTags(u, i)) EXCEPT !.user = u, !.inv = i]
           found == \E v \in invites : v.id = i /\ v.user = u
           v == CHOOSE v \in invites : v.id = i /\ v.user = u
       IN  wk' = [wk EXCEPT ![w] =
                 IF ~found THEN Done(r, "InviteNotFound")
                 ELSE IF v.status # "pending" THEN Done(r, "AlreadyProcessed")
                 ELSE [r EXCEPT !.pc = "reject_save", !.team = v.team]]
    /\ UNCHANGED <<teams, members, invites, ga_active>>
    /\ UnchangedConfig

\* Lines 253-255: invite.save(update_fields=["status"]), which validates the
\* invite again (TournamentInvite.save) before the UPDATE; an UPDATE of a
\* row that is gone raises DatabaseError.
api_reject_invite_save(w) ==
    /\ wk[w].op = "api_reject_invite"
    /\ wk[w].pc = "reject_save"
    /\ LET r == wk[w]
           inst == [id |-> r.inv, user |-> r.user, team |-> r.team, status |-> "rejected"]
           c == TournamentInvite_full_clean(teams, members, invites, ga_active, inst, FALSE)
           found == \E v \in invites : v.id = r.inv
       IN  IF c # "ok"
           THEN wk' = [wk EXCEPT ![w] = Done(r, "InviteValidationError")] /\ UNCHANGED invites
           ELSE IF ~found
           THEN wk' = [wk EXCEPT ![w] = Done(r, "DatabaseError")] /\ UNCHANGED invites
           ELSE /\ wk' = [wk EXCEPT ![w] = Done(r, "ok")]
                /\ invites' = { IF v.id = r.inv THEN inst ELSE v : v \in invites }
    /\ UNCHANGED <<teams, members, ga_active>>
    /\ UnchangedConfig

\* ------------------------------------------------------- api_cancel_invite
\* What held when the request arrived:
\* "leader": the invite exists and the requester leads its team;
\* "pending", "accepted", "rejected": the status of the invite;
\* "member": the invited user has a TeamMember row in the invite's team.
CancelTags(u, i) ==
    UNION { (IF \E m \in members : m.team = v.team /\ m.is_leader
                                    /\ GaRow(m.ga).user = u
             THEN {"leader"} ELSE {})
            \cup {v.status}
            \cup (IF \E m \in members : m.team = v.team /\ GaRow(m.ga).user = v.user
                  THEN {"member"} ELSE {})
          : v \in { x \in invites : x.id = i } }

\* Lines 268-274 and the status the branches of lines 276-287 read from the
\* loaded instance.
api_cancel_invite(w, u, i) ==
    /\ Free(w)
    /\ LET r == [Request("api_cancel_invite", CancelTags(u, i)) EXCEPT !.user = u, !.inv = i]
           found == \E v \in invites : v.id = i
           v == InviteRow(invites, i)
       IN  wk' = [wk EXCEPT ![w] =
                 IF ~found THEN Done(r, "InviteNotFound")
                 ELSE IF ~ _is_leader(members, u, v.team) THEN Done(r, "PermissionDenied")
                 ELSE IF v.status = "rejected" THEN Done(r, "NothingToCancel")
                 ELSE [r EXCEPT !.pc = "cancel_apply", !.team = v.team, !.tgt = v.user,
                                !.st = v.status, !.tst = TeamRow(teams, v.team).status]]
    /\ UNCHANGED <<teams, members, invites, ga_active>>
    /\ UnchangedConfig

\* Lines 276-285: a pending invite is deleted; for an accepted one the rows
\* of the invited user in the team are deleted, the invite is saved as
\* rejected and the team status recomputed, in one transaction.
api_cancel_invite_apply(w) ==
    /\ wk[w].op = "api_cancel_invite"
    /\ wk[w].pc = "cancel_apply"
    /\ LET r == wk[w]
           ms2 == { m \in members : ~(m.team = r.team /\ GaUser(m.ga) = r.tgt) }
           inst == [id |-> r.inv, user |-> r.tgt, team |-> r.team, status |-> "rejected"]
           c == TournamentInvite_full_clean(teams, ms2, invites, ga_active, inst, FALSE)
           found == \E v \in invites : v.id = r.inv
       IN  IF r.st = "pending"
           THEN /\ invites' = { v \in invites : v.id # r.inv }
                /\ wk' = [wk EXCEPT ![w] = Done(r, "ok")]
                /\ UNCHANGED <<teams, members>>
           ELSE IF c # "ok"
           THEN wk' = [wk EXCEPT ![w] = Done(r, "InviteValidationError")]
                /\ UNCHANGED <<teams, members, invites>>
           ELSE IF ~found
           THEN wk' = [wk EXCEPT ![w] = Done(r, "DatabaseError")]
                /\ UNCHANGED <<teams, members, invites>>
           ELSE /\ members' = ms2
                /\ invites' = { IF v.id = r.inv THEN inst ELSE v : v \in invites }
                /\ teams' = _recompute_team_status(teams, ms2, r.team, r.tst)
                /\ wk' = [wk EXCEPT ![w] = Done(r, "ok")]
    /\ UNCHANGED <<ga_active>>
    /\ UnchangedConfig

\* ----------------------------------------------------------- create_invite
\* What held when the request arrived:
\* "tgt_joined": the target has a TeamMember row in a team of the tournament;
\* "tgt_inactive": such a row is of a deactivated account;
\* "reinvite": the requester leads the team, the target is another user in
\* no team, the tournament is open, the team has a free slot, no invite is
\* pending for (target, team) and a rejected one exists.
ReinviteNow(u, tgt, t) ==
    /\ \E m \in members : m.team = t /\ m.is_leader /\ GaRow(m.ga).user = u
    /\ tgt # u
    /\ \A m \in members : GaRow(m.ga).user # tgt
    /\ t_open
    /\ Cardinality({ m \in members : m.team = t }) < team_size
    /\ ~ \E v \in invites : v.user = tgt /\ v.team = t /\ v.status = "pending"
    /\ \E v \in invites : v.user = tgt /\ v.team = t /\ v.status = "rejected"
TargetJoinedNow(tgt) == \E m \in members : GaRow(m.ga).user = tgt
TargetJoinedInactiveNow(tgt) ==
    \E m \in members : GaRow(m.ga).user = tgt /\ ~ga_active[m.ga]

CreateTags(u, tgt, t) ==
    (IF TargetJoinedNow(tgt) THEN {"tgt_joined"} ELSE {})
    \cup (IF TargetJoinedInactiveNow(tgt) THEN {"tgt_inactive"} ELSE {})
    \cup (IF ReinviteNow(u, tgt, t) THEN {"reinvite"} ELSE {})

\* Lines 128-154: the team is loaded; the requester must lead it, must not
\* invite themselves, and the target must be in no team of the tournament.
create_invite(w, u, tgt, t) ==
    /\ Free(w)
    /\ Cardinality(invites) + Inserting({"invite_clean", "invite_insert"}) < InviteBound
    /\ LET r == [Request("create_invite", CreateTags(u, tgt, t)) EXCEPT !.user = u, !.tgt = tgt, !.team = t]
       IN  wk' = [wk EXCEPT ![w] =
                 IF t \notin TeamIds(teams) THEN Done(r, "NotFound")
                 ELSE IF ~ _is_leader(members, u, t) THEN Done(r, "PermissionDenied")
                 ELSE IF tgt = u THEN Done(r, "CannotInviteSelf")
                 ELSE IF MembershipsIn(teams, members, tgt, TeamRow(teams, t).tournament) # {}
                      THEN Done(r, "AlreadyMember")
                 ELSE [r EXCEPT !.pc = "invite_clean"]]
    /\ UNCHANGED <<teams, members, invites, ga_active>>
    /\ UnchangedConfig

\* Lines 156-161, first half: TournamentInvite.objects.create runs
\* TournamentInvite.save, whose full_clean raises a ValidationError the
\* view does not catch.
create_invite_clean(w) ==
    /\ wk[w].op = "create_invite"
    /\ wk[w].pc = "invite_clean"
    /\ LET r == wk[w]
           inst == [id |-> 0, user |-> r.tgt, team |-> r.team, status |-> "pending"]
           c == TournamentInvite_full_clean(teams, members, invites, ga_active, inst, FALSE)
       IN  wk' = [wk EXCEPT ![w] = IF c = "ok" THEN [r EXCEPT !.pc = "invite_insert"]
                                                   ELSE Done(r, c)]
    /\ UNCHANGED <<teams, members, invites, ga_active>>
    /\ UnchangedConfig

\* Lines 156-164, second half: the INSERT; an IntegrityError is caught and
\* reported as an existing pending invite.
create_invite_insert(w) ==
    /\ wk[w].op = "create_invite"
    /\ wk[w].pc = "invite_insert"
    /\ FreeInviteKeys # {}
    /\ LET r == wk[w]
           key == Least(FreeInviteKeys)
           inst == [id |-> key, user |-> r.tgt, team |-> r.team, status |-> "pending"]
       IN  IF TournamentInvite_insert_ok(teams, invites, inst)
           THEN /\ invites' = invites \cup {inst}
                /\ wk' = [wk EXCEPT ![w] = Done(r, "ok")]
           ELSE /\ wk' = [wk EXCEPT ![w] = Done(r, "IntegrityError")]
                /\ UNCHANGED invites
    /\ UNCHANGED <<teams, members, ga_active>>
    /\ UnchangedConfig

\* -------------------------------------------------------------- leave_team
\* What held when the request arrived:
\* "leader": the requester leads the team;
\* "invites": the team has invites that are pending or accepted.
LeaveTags(u, t) ==
    (IF \E m \in members : m.team = t /\ m.is_leader /\ GaRow(m.ga).user = u
     THEN {"leader"} ELSE {})
    \cup (IF \E v \in invites : v.team = t /\ v.status \in {"pending", "accepted"}
          THEN {"invites"} ELSE {})

\* Lines 126-132: the team is loaded, the requester must be in it; whether
\* they lead it decides the branch.
leave_team(w, u, t) ==
    /\ Free(w)
    /\ LET r == [Request("leave_team", LeaveTags(u, t)) EXCEPT !.user = u, !.team = t]
       IN  wk' = [wk EXCEPT ![w] =
                 IF t \notin TeamIds(teams) THEN Done(r, "NotFound")
                 ELSE IF ~ _is_user_in_team(members, u, t) THEN Done(r, "NotPartOfTeam")
                 ELSE [r EXCEPT !.pc = "leave_apply",
                                !.st = IF _is_leader(members, u, t) THEN "leader" ELSE "member"]]
    /\ UNCHANGED <<teams, members, invites, ga_active>>
    /\ UnchangedConfig

\* Lines 132-137: team.delete() cascades to the team's members and invites;
\* a follower's rows in the team are deleted otherwise.
leave_team_apply(w) ==
    /\ wk[w].op = "leave_team"
    /\ wk[w].pc = "leave_apply"
    /\ LET r == wk[w]
       IN  /\ IF r.st = "leader"
              THEN /\ teams' = { x \in teams : x.id # r.team }
                   /\ members' = { m \in members : m.team # r.team }
                   /\ invites' = { v \in invites : v.team # r.team }
              ELSE /\ members' = { m \in members : ~(m.team = r.team /\ GaUser(m.ga) = r.user) }
                   /\ UNCHANGED <<teams, invites>>
           /\ wk' = [wk EXCEPT ![w] = Done(r, "ok")]
    /\ UNCHANGED <<ga_active>>
    /\ UnchangedConfig

\* ------------------------------------------------------------- kick_member
\* Lines 144-155: the team is loaded; the requester must be in it and lead it
kick_member(w, u, t, g) ==
    /\ Free(w)
    /\ LET r == [Request("kick_member", {}) EXCEPT !.user = u, !.team = t, !.ga = g]
       IN  wk' = [wk EXCEPT ![w] =
                 IF t \notin TeamIds(teams) THEN Done(r, "NotFound")
                 ELSE IF ~ _is_user_in_team(members, u, t) THEN Done(r, "NotPartOfTeam")
                 ELSE IF ~ _is_leader(members, u, t) THEN Done(r, "OnlyLeader")
                 ELSE [r EXCEPT !.pc = "kick_apply"]]
    /\ UNCHANGED <<teams, members, invites, ga_active>>
    /\ UnchangedConfig

\* Lines 157-161: the rows of the team with the given game account are deleted
kick_member_apply(w) ==
    /\ wk[w].op = "kick_member"
    /\ wk[w].pc = "kick_apply"
    /\ LET r == wk[w]
           rows == { m \in members : m.team = r.team /\ m.ga = r.ga }
       IN  /\ members' = members \ rows
           /\ wk' = [wk EXCEPT ![w] = Done(r, IF rows = {} THEN "MemberNotFound" ELSE "ok")]
    /\ UNCHANGED <<teams, invites, ga_active>>
    /\ UnchangedConfig

\* ----------------------------------------------------------- new_team_form
\* (variant: no unique constraint on the team name)
unique_team_name_unchecked(tms, row) == TRUE

\* TournamentRegistration.Meta: unique_team_name_in_tournament, as the
\* INSERT or UPDATE of `row` meets it
unique_team_name_in_tournament(tms, row) ==
    ~ \E x \in tms : x.id # row.id /\ x.tournament = row.tournament
                     /\ x.team_name = row.team_name

\* What held when the request arrived: "name_free": no team of the
\* tournament has the name; "name_used": another team has it.
TeamNameTags(t, name) ==
    IF \E x \in teams : x.id # t /\ x.tournament = TheTournament /\ x.team_name = name
    THEN {"name_used"} ELSE {"name_free"}

\* _get_game_account: the accounts the leader form offers
_get_game_account(u) ==
    { g \in GameAccountIds : GaUser(g) = u /\ GaGame(g) = FormatGame /\ ga_active[g] }

\* Lines 27-37 and the form validation of _try_create_team (line 193): a
\* user who is in a team of the tournament is redirected to it; the chosen
\* account must be one the form offers.
new_team_form(w, u, name, g) ==
    /\ Free(w)
    /\ Cardinality(teams) + Inserting({"team_save"}) < MaxTeams
    /\ LET r == [Request("new_team_form", TeamNameTags(0, name)) EXCEPT !.user = u, !.name = name, !.ga = g]
       IN  wk' = [wk EXCEPT ![w] =
                 IF MembershipsIn(teams, members, u, TheTournament) # {}
                      THEN Done(r, "RedirectToTeam")
                 ELSE IF g \notin _get_game_account(u) THEN Done(r, "FormInvalid")
                 ELSE [r EXCEPT !.pc = "team_save"]]
    /\ UNCHANGED <<teams, members, invites, ga_active>>
    /\ UnchangedConfig

\* _try_create_team lines 195-209: team_entry.save() under
\* unique_team_name_in_tournament; the exception is caught and the form
\* shown again.
_try_create_team_save(w) ==
    /\ wk[w].op = "new_team_form"
    /\ wk[w].pc = "team_save"
    /\ FreeTeamKeys # {}
    /\ LET r == wk[w]
           key == Least(FreeTeamKeys)
           row == [id |-> key, tournament |-> TheTournament, team_name |-> r.name,
                   status |-> "invalid"]
       IN  IF ~ unique_team_name_in_tournament(teams, row)
           THEN /\ wk' = [wk EXCEPT ![w] = Done(r, "TeamSaveError")]
                /\ UNCHANGED teams
           ELSE /\ teams' = teams \cup {row}
                /\ wk' = [wk EXCEPT ![w] = [r EXCEPT !.pc = "leader_clean", !.team = key]]
    /\ UNCHANGED <<members, invites, ga_active>>
    /\ UnchangedConfig

\* PreTeamMemberForm.save (forms.py lines 69-88) as _try_create_team line 212
\* calls it: member.full_clean() (pc = "leader_clean"), then member.save()
\* (pc = "leader_save").  Any exception leads to the handler of line 214.
PreTeamMemberForm_save(w) ==
    /\ wk[w].op = "new_team_form"
    /\ wk[w].pc \in {"leader_clean", "leader_save"}
    /\ LET r == wk[w]
           member == NewTeamMember(r.team, r.ga, TRUE)
           c == TeamMember_full_clean(teams, members, member)
       IN  IF r.pc = "leader_clean"
           THEN /\ wk' = [wk EXCEPT ![w] = IF c = "ok" THEN [r EXCEPT !.pc = "leader_save"]
                                           ELSE [r EXCEPT !.pc = "team_undo", !.out = c]]
                /\ UNCHANGED members
           ELSE IF TeamMember_insert_ok(teams, members, member)
           THEN /\ members' = members \cup {member}
                /\ wk' = [wk EXCEPT ![w] = Done(r, "ok")]
           ELSE /\ wk' = [wk EXCEPT ![w] = [r EXCEPT !.pc = "team_undo", !.out = "IntegrityError"]]
                /\ UNCHANGED members
    /\ UNCHANGED <<teams, invites, ga_active>>
    /\ UnchangedConfig

\* _try_create_team lines 214-216: team_entry.delete(), then the exception
\* is raised again.
_try_create_team_undo(w) ==
    /\ wk[w].op = "new_team_form"
    /\ wk[w].pc = "team_undo"
    /\ LET r == wk[w]
       IN  /\ teams' = { x \in teams : x.id # r.team }
           /\ members' = { m \in members : m.team # r.team }
           /\ invites' = { v \in invites : v.team # r.team }
           /\ wk' = [wk EXCEPT ![w] = Done(r, r.out)]
    /\ UNCHANGED <<ga_active>>
    /\ UnchangedConfig

\* ---------------------------------------------------------- edit_team_form
\* Lines 53-94, a POST with a team name, the form's own team and a game
\* account for the leader.  team_form.is_valid() does not look at the
\* unique constraint (the tournament is not a field of the form);
\* leader_form.is_valid() runs TeamMember.full_clean on the leader's row
\* with the posted account, the row itself excluded from the queries: a
\* ValidationError shows the form again, a NameError propagates.  After
\* that team_form.save() is the UPDATE of the name; its exception is caught
\* and leader_form.save() then writes the leader's row.
edit_team_form(w, u, t, name, g) ==
    /\ Free(w)
    /\ LET r == [Request("edit_team_form", TeamNameTags(t, name))
                   EXCEPT !.user = u, !.team = t, !.name = name, !.ga = g]
           leaders == { m \in members : m.team = t /\ m.is_leader }
       IN  IF t \notin TeamIds(teams)
           THEN wk' = [wk EXCEPT ![w] = Done(r, "NotFound")]
                /\ UNCHANGED <<teams, members>>
           ELSE IF ~ _is_user_in_team(members, u, t)
           THEN wk' = [wk EXCEPT ![w] = Done(r, "NotPartOfTeam")]
                /\ UNCHANGED <<teams, members>>
           ELSE IF leaders = {}
           THEN wk' = [wk EXCEPT ![w] = Done(r, "NoLeader")]
                /\ UNCHANGED <<teams, members>>
           ELSE \E leader \in leaders :
                  LET offered == g \in _get_game_account(GaUser(leader.ga))
                      posted == IF offered THEN [leader EXCEPT !.ga = g] ELSE leader
                      c == TeamMember_full_clean(teams, members \ {leader}, posted)
                      row == [TeamRow(teams, t) EXCEPT !.team_name = name]
                  IN  IF c = "NameError"
                      THEN wk' = [wk EXCEPT ![w] = Done(r, "NameError")]
                           /\ UNCHANGED <<teams, members>>
                      ELSE IF ~offered \/ c # "ok"
                      THEN wk' = [wk EXCEPT ![w] = Done(r, "FormInvalid")]
                           /\ UNCHANGED <<teams, members>>
                      ELSE IF ~ unique_team_name_in_tournament(teams, row)
                      THEN /\ wk' = [wk EXCEPT ![w] = Done(r, "TeamSaveError")]
                           /\ members' = (members \ {leader}) \cup {posted}
                           /\ UNCHANGED teams
                      ELSE /\ wk' = [wk EXCEPT ![w] = Done(r, "ok")]
                           /\ teams' = (teams \ {TeamRow(teams, t)}) \cup {row}
                           /\ UNCHANGED members
    /\ UNCHANGED <<invites, ga_active>>
    /\ UnchangedConfig

\* ------------------------------------------------ GameAccountDetail.delete
\* The owner deactivates an account; the row and the rows that refer to it
\* stay.
GameAccountDetail_delete(w, u, g) ==
    /\ Free(w)
    /\ \/ ~ga_active[g]
       \/ Cardinality({ h \in GameAccountIds : ~ga_active[h] }) < MaxInactive
    /\ t_open
    /\ Cardinality(invites) + Inserting({"invite_clean", "invite_insert"}) <= MaxInvitesElse
    /\ LET r == [Request("GameAccountDetail.delete", {}) EXCEPT !.user = u, !.ga = g]
       IN  IF GaUser(g) # u
           THEN wk' = [wk EXCEPT ![w] = Done(r, "Forbidden")] /\ UNCHANGED ga_active
           ELSE /\ ga_active' = [ga_active EXCEPT ![g] = FALSE]
                /\ wk' = [wk EXCEPT ![w] = Done(r, "ok")]
    /\ UNCHANGED <<teams, members, invites>>
    /\ UnchangedConfig

\* ------------------------------------------------- _recompute_team_status
\* The function on its own: a team instance is loaded and
\* _recompute_team_status(team) is called on it, then called again on the
\* same instance, whose status attribute the first call has set.
\* "stale": the stored status was not the one the member count gives.
RecomputeTags(t) ==
    IF \E x \in teams : x.id = t /\ x.status # new_status(members, t)
    THEN {"stale"} ELSE {}

recompute_call(w, t) ==
    /\ Free(w)
    /\ t \in TeamIds(teams)
    /\ LET r == [Request("_recompute_team_status", RecomputeTags(t)) EXCEPT !.team = t]
       IN  /\ teams' = _recompute_team_status(teams, members, t, TeamRow(teams, t).status)
           /\ wk' = [wk EXCEPT ![w] = [r EXCEPT !.pc = "recomputed",
                                                !.tst = new_status(members, t)]]
    /\ UNCHANGED <<members, invites, ga_active>>
    /\ UnchangedConfig

recompute_again(w) ==
    /\ wk[w].op = "_recompute_team_status"
    /\ wk[w].pc = "recomputed"
    /\ LET r == wk[w]
       IN  /\ teams' = IF r.team \in TeamIds(teams)
                       THEN _recompute_team_status(teams, members, r.team, r.tst)
                       ELSE teams
           /\ wk' = [wk EXCEPT ![w] = Done(r, "ok")]
    /\ UNCHANGED <<members, invites, ga_active>>
    /\ UnchangedConfig

\* ------------------------------------------------- game_accounts_list_create
\* The in-game names a request posts, with what str.strip() and the
\* case folding of __iexact make of them
MaxAccounts == 2
Games == {"g1", "g2"}
IngameNames ==
    { [raw |-> "Foo",  stripped |-> "Foo", folded |-> "foo"],
      [raw |-> "foo",  stripped |-> "foo", folded |-> "foo"],
      [raw |-> " foo", stripped |-> "foo", folded |-> "foo"],
      [raw |-> "Bar",  stripped |-> "Bar", folded |-> "bar"],
      [raw |-> " ",    stripped |-> "",    folded |-> ""] }
RawNames == { n.raw : n \in IngameNames }
strip(raw) == (CHOOSE n \in IngameNames : n.raw = raw).stripped
iexact(a, b) ==
    (CHOOSE n \in IngameNames : n.stripped = a).folded
        = (CHOOSE n \in IngameNames : n.stripped = b).folded

AccountKeys == 1..MaxAccounts
FreeAccountKeys == AccountKeys \ { a.id : a \in accounts }
UnchangedTeams == UNCHANGED <<teams, members, invites, ga_active, t_open, team_size>>

\* GameAccountForm.clean: no active account of the game has the name,
\* compared with __iexact
GameAccountForm_clean(game, name) ==
    ~ \E a \in accounts : a.game = game /\ a.active /\ iexact(a.ingame_name, name)

\* GameAccount.Meta: unique_game_ingame_if_active, as the INSERT of `row`
\* meets it: the names are compared as they are
unique_game_ingame_if_active(row) ==
    ~ (row.active /\ \E a \in accounts : a.game = row.game /\ a.active
                                          /\ a.ingame_name = row.ingame_name)

\* views.py lines 30-39: the form is validated: clean_ingame_name strips the
\* name and refuses an empty one, clean refuses a name in use
game_accounts_list_create(w, u, game, raw) ==
    /\ Free(w)
    /\ Cardinality(accounts) + Inserting({"account_save"}) < MaxAccounts
    /\ LET name == strip(raw)
           r == [Request("game_accounts_list_create", {}) EXCEPT
                   !.user = u, !.game = game, !.name = name]
       IN  wk' = [wk EXCEPT ![w] =
                 IF name = "" THEN Done(r, "EmptyName")
                 ELSE IF ~ GameAccountForm_clean(game, name) THEN Done(r, "NameUsed")
                 ELSE [r EXCEPT !.pc = "account_save"]]
    /\ UNCHANGED accounts
    /\ UnchangedTeams

\* Lines 40-46: ga.save() in its own transaction; an IntegrityError is
\* answered with 400
game_accounts_list_create_save(w) ==
    /\ wk[w].op = "game_accounts_list_create"
    /\ wk[w].pc = "account_save"
    /\ FreeAccountKeys # {}
    /\ LET r == wk[w]
           row == [id |-> Least(FreeAccountKeys), user |-> r.user, game |-> r.game,
                   ingame_name |-> r.name, active |-> TRUE]
       IN  IF unique_game_ingame_if_active(row)
           THEN /\ accounts' = accounts \cup {row}
                /\ wk' = [wk EXCEPT ![w] = Done(r, "ok")]
           ELSE /\ wk' = [wk EXCEPT ![w] = Done(r, "IntegrityError")]
                /\ UNCHANGED accounts
    /\ UnchangedTeams

\* GameAccountDetail.delete (lines 54-62) on one of these rows
GameAccountDetail_delete_row(w, u, pk) ==
    /\ Free(w)
    /\ LET r == [Request("GameAccountDetail.delete", {}) EXCEPT !.user = u]
           found == \E a \in accounts : a.id = pk
           ga == CHOOSE a \in accounts : a.id = pk
       IN  IF ~found
           THEN wk' = [wk EXCEPT ![w] = Done(r, "NotFound")] /\ UNCHANGED accounts
           ELSE IF ga.user # u
           THEN wk' = [wk EXCEPT ![w] = Done(r, "Forbidden")] /\ UNCHANGED accounts
           ELSE /\ accounts' = (accounts \ {ga}) \cup {[ga EXCEPT !.active = FALSE]}
                /\ wk' = [wk EXCEPT ![w] = Done(r, "ok")]
    /\ UnchangedTeams

\* The worker hands the response over and is free for the next request
respond(w) ==
    /\ wk[w].pc = "done"
    /\ wk' = [wk EXCEPT ![w] = Idle]
    /\ UNCHANGED <<teams, members, invites, ga_active>>
    /\ UnchangedConfig

\* ------------------------------------------------------------------- Next
Step(w) ==
    \/ \E u \in Users, i \in InviteKeys, g \in GameAccountIds : api_accept_invite(w, u, i, g)
    \/ api_accept_invite_add(w)
    \/ \E u \in Users, i \in InviteKeys : api_reject_invite(w, u, i)
    \/ api_reject_invite_save(w)
    \/ \E u \in Users, i \in InviteKeys : api_cancel_invite(w, u, i)
    \/ api_cancel_invite_apply(w)
    \/ \E u \in Users, tgt \in Users, t \in TeamKeys : create_invite(w, u, tgt, t)
    \/ create_invite_clean(w)
    \/ create_invite_insert(w)
    \/ \E u \in Users, t \in TeamKeys : leave_team(w, u, t)
    \/ leave_team_apply(w)
    \/ \E u \in Users, t \in TeamKeys, g \in GameAccountIds : kick_member(w, u, t, g)
    \/ kick_member_apply(w)
    \/ \E u \in Users, name \in TeamNames, g \in GameAccountIds : new_team_form(w, u, name, g)
    \/ _try_create_team_save(w)
    \/ PreTeamMemberForm_save(w)
    \/ _try_create_team_undo(w)

\* One worker: the requests are served one after the other
Next ==
    \/ Step(1)
    \/ \E i \in InviteKeys, g \in GameAccountIds : TournamentInvite_accept(1, i, g)
    \/ TournamentInvite_accept_add(1)
    \/ \E u \in Users, g \in GameAccountIds : GameAccountDetail_delete(1, u, g)
    \/ respond(1)
Spec == Init /\ [][Next]_vars

\* Scenario A of the specification: a format with team_size 3, the
\* tournament open; the database is empty or holds what the steps of the
\* scenario should have written
ScenarioTeamSize == 3
InitScenarioA == t_open = TRUE /\ InitTables({ScenarioTeamSize}, MaxInvites)
SpecScenarioA == InitScenarioA /\ [][Next]_vars

\* The roster changes that the views make without _recompute_team_status
\* (leave, kick) and with it (cancel), and the function called on its own
NextRecompute ==
    \/ \E u \in Users, t \in TeamKeys : leave_team(1, u, t)
    \/ leave_team_apply(1)
    \/ \E u \in Users, t \in TeamKeys, g \in GameAccountIds : kick_member(1, u, t, g)
    \/ kick_member_apply(1)
    \/ \E u \in Users, i \in InviteKeys : api_cancel_invite(1, u, i)
    \/ api_cancel_invite_apply(1)
    \/ \E t \in TeamKeys : recompute_call(1, t)
    \/ recompute_again(1)
    \/ respond(1)
SpecRecompute == Init /\ [][NextRecompute]_vars

\* Team names: two workers that create and rename teams, the roster and
\* the names of the database at the start as in Init, without invites
InitNames == t_open = TRUE /\ InitTables(1..MaxTeamSize, 0)
NextNames ==
    \E w \in Workers :
        \/ \E u \in Users, name \in TeamNames, g \in GameAccountIds :
              new_team_form(w, u, name, g)
        \/ _try_create_team_save(w)
        \/ PreTeamMemberForm_save(w)
        \/ _try_create_team_undo(w)
        \/ \E u \in Users, t \in TeamKeys, name \in TeamNames, g \in GameAccountIds :
              edit_team_form(w, u, t, name, g)
        \/ respond(w)
SpecNames == InitNames /\ [][NextNames]_vars

\* Game accounts: two workers that create and deactivate accounts, no
\* account and no team at the start
InitAccounts ==
    /\ teams = {} /\ members = {} /\ invites = {}
    /\ ga_active = [g \in GameAccountIds |-> TRUE]
    /\ t_open = TRUE /\ team_size = MaxTeamSize
    /\ accounts = {}
    /\ wk = [w \in Workers |-> Idle]
NextAccounts ==
    \E w \in Workers :
        \/ \E u \in Users, game \in Games, raw \in RawNames :
              game_accounts_list_create(w, u, game, raw)
        \/ game_accounts_list_create_save(w)
        \/ \E u \in Users, pk \in AccountKeys : GameAccountDetail_delete_row(w, u, pk)
        \/ respond(w)
SpecAccounts == InitAccounts /\ [][NextAccounts]_vars

\* Two workers, one request each: the statements of the two requests
\* interleave in every order
NextConc == \E w \in Workers : Step(w)
SpecConc == InitConc /\ [][NextConc]_vars

\* ================================================================ properties
Finished(w, ops) == wk[w].pc = "done" /\ wk[w].op \in ops
Leaders(t) == { m \in members : m.team = t /\ m.is_leader }

\* C1: every team that has a member has exactly one member with
\* is_leader = TRUE, and that member has order 0.
C1_OneLeaderAtOrderZero ==
    \A t \in teams :
        MembersOf(members, t.id) # {} =>
            /\ Cardinality(Leaders(t.id)) = 1
            /\ \A m \in Leaders(t.id) : m.order = 0

\* The leader has kicked their own game account and a follower is left
C1_LeaderKickedSelf ==
    \E w \in Workers :
        /\ Finished(w, {"kick_member"}) /\ wk[w].out = "ok"
        /\ \E t \in teams : MembersOf(members, t.id) # {} /\ Leaders(t.id) = {}

\* C2: for every user at most one team of the tournament contains a member
\* row of one of the user's accounts (active or not), whatever the
\* interleaving of the two workers; and an accept that arrives when its
\* user is a member of another team does not succeed.
C2_OneTeamPerUser ==
    /\ \A u \in Users :
         Cardinality({ m.team : m \in MembershipsIn(teams, members, u, TheTournament) }) <= 1
    /\ \A w \in Workers :
         (Finished(w, AcceptOps) /\ "joined" \in wk[w].pre) => wk[w].out # "ok"

\* An accept by a member of another team was refused for that reason
C2_Witness ==
    \E w \in Workers :
        /\ Finished(w, AcceptOps) /\ "joined" \in wk[w].pre
        /\ wk[w].out = "AlreadyMember"

C4_OnePendingPerPair ==
    \A v1, v2 \in invites :
        (v1.user = v2.user /\ v1.team = v2.team
         /\ v1.status = "pending" /\ v2.status = "pending") => v1 = v2

\* Of two concurrent creations for one pair the second INSERT was refused
\* by the database and one pending row exists
C4_Witness ==
    /\ \E w \in Workers : Finished(w, {"create_invite"}) /\ wk[w].out = "IntegrityError"
    /\ \E w \in Workers : Finished(w, {"create_invite"}) /\ wk[w].out = "ok"
    /\ \E v \in invites : v.status = "pending"

\* C5: the member that an acceptance builds for a follower has an order in
\* 1..team_size-1 that no member of the team has.
C5_FollowerOrderAssigned ==
    \A w \in Workers :
        (wk[w].op \in AcceptOps /\ wk[w].pc = "accept_clean") =>
            LET member == NewTeamMember(wk[w].team, wk[w].ga, FALSE)
            IN  /\ member.order \in 1..(team_size - 1)
                /\ \A m \in MembersOf(members, wk[w].team) : m.order # member.order

\* C6: when two accepts of two different pending invites on one team with
\* one free slot have both finished, exactly one of them has succeeded.
C6_ExactlyOneCommits ==
    ( /\ \A w \in Workers : Finished(w, {"api_accept_invite"}) /\ "valid" \in wk[w].pre
      /\ wk[1].inv # wk[2].inv
      /\ \E v1, v2 \in invites : v1.id = wk[1].inv /\ v2.id = wk[2].inv /\ v1.team = v2.team )
    => Cardinality({ w \in Workers : wk[w].out = "ok" }) = 1

\* C7: an accept that was valid when it arrived and finishes while the
\* leader's cancel of the same pending invite has not yet written anything
\* has committed first, so it has succeeded.
C7_FirstCommitWins ==
    \A wa, wc \in Workers :
        ( /\ Finished(wa, {"api_accept_invite"}) /\ "valid" \in wk[wa].pre
          /\ wk[wc].op = "api_cancel_invite" /\ wk[wc].pc = "cancel_apply"
          /\ wk[wc].st = "pending" /\ wk[wc].inv = wk[wa].inv )
        => wk[wa].out = "ok"

\* C8: when two accepts of the same pending invite, both valid when they
\* arrived, have finished, exactly one of them has taken effect.
C8_ExactlyOneTakesEffect ==
    ( /\ \A w \in Workers : Finished(w, {"api_accept_invite"}) /\ "valid" \in wk[w].pre
      /\ wk[1].inv = wk[2].inv )
    => Cardinality({ w \in Workers : wk[w].out = "ok" }) = 1

\* C9: an accept that arrives when the team of its pending invite is full
\* ends with a capacity error, and an accept that does not succeed leaves
\* teams, members and invites as they were.
C9_FullTeamRefused ==
    [][ \A w \in Workers :
          (wk[w].pc # "done" /\ wk'[w].pc = "done" /\ wk'[w].op \in AcceptOps) =>
              /\ "full" \in wk'[w].pre => wk'[w].out \in {"TeamFull", "CapacityExceeded"}
              /\ wk'[w].out # "ok" => UNCHANGED <<teams, members, invites>> ]_vars

\* An accept on a full team was refused with the capacity error, the invite
\* is still pending
C9_Witness ==
    \E w \in Workers :
        /\ Finished(w, AcceptOps) /\ "full" \in wk[w].pre /\ wk[w].out = "TeamFull"
        /\ \E v \in invites : v.id = wk[w].inv /\ v.status = "pending"
                               /\ member_count(members, v.team) = team_size

\* C10: an accept that was valid when it arrived (pending invite, open
\* tournament, team with a leader and a free slot, active matching account
\* of the invited user) succeeds.
C10_ValidAcceptSucceeds ==
    \A w \in Workers :
        (Finished(w, AcceptOps) /\ "valid" \in wk[w].pre) => wk[w].out = "ok"

\* C11: an accept that arrives with an account that is not owned by the
\* invited user, or is deactivated, or is of another game ends in the
\* checks that precede the member (capacity, openness, account, game)
\* with an error, and leaves teams, members and invites as they were.
C11_BadAccountRefused ==
    [][ \A w \in Workers :
          ( /\ wk[w].pc # "done" /\ wk'[w].pc = "done"
            /\ wk'[w].op \in AcceptOps /\ "badga" \in wk'[w].pre ) =>
              /\ wk'[w].out \in {"TeamFull", "Closed", "GameAccountNotFound",
                                 "InvalidAccount", "GameMismatch"}
              /\ UNCHANGED <<teams, members, invites>> ]_vars

\* An accept with a deactivated account was refused and the invite is
\* still pending
C11_Witness ==
    \E w \in Workers :
        /\ Finished(w, AcceptOps) /\ "badga" \in wk[w].pre
        /\ wk[w].out \in {"GameAccountNotFound", "InvalidAccount"}
        /\ \E g \in GameAccountIds : ~ga_active[g]
        /\ \E v \in invites : v.id = wk[w].inv /\ v.status = "pending"
                               /\ \A g \in GameAccountIds : GaUser(g) = v.user => ~ga_active[g]

\* C12: an accept that arrives for a pending invite of a closed tournament
\* (everything else being in order) ends with the closed error.
C12_ClosedRefused ==
    \A w \in Workers :
        (Finished(w, AcceptOps) /\ "closed" \in wk[w].pre) => wk[w].out = "Closed"

\* C13: create_invite inserts an invite row only if the requester leads the
\* team, the target is not the requester, the tournament is open, the team
\* has fewer members than team_size and no invite is pending for (target,
\* team).
C13_CreateOnlyIfPreconditions ==
    [][ \A w \in Workers :
          (wk[w].op = "create_invite" /\ invites' # invites) =>
              /\ \E m \in members : m.team = wk[w].team /\ m.is_leader
                                     /\ GaRow(m.ga).user = wk[w].user
              /\ wk[w].tgt # wk[w].user
              /\ t_open
              /\ Cardinality({ m \in members : m.team = wk[w].team }) < team_size
              /\ ~ \E v \in invites : v.user = wk[w].tgt /\ v.team = wk[w].team
                                       /\ v.status = "pending" ]_vars

\* C14: a create_invite whose target has a TeamMember row in a team of the
\* tournament, through any account, active or deactivated, ends with an
\* error before the insert and adds no invite row.
C14_MemberNotInvited ==
    [][ \A w \in Workers :
          ( /\ wk[w].pc # "done" /\ wk'[w].pc = "done"
            /\ wk'[w].op = "create_invite" /\ "tgt_joined" \in wk'[w].pre ) =>
              /\ wk'[w].out \in {"NotFound", "PermissionDenied",
                                 "CannotInviteSelf", "AlreadyMember"}
              /\ invites' = invites ]_vars
C14_Witness ==
    \E w \in Workers :
        /\ Finished(w, {"create_invite"})
        /\ {"tgt_joined", "tgt_inactive"} \subseteq wk[w].pre
        /\ wk[w].out = "AlreadyMember"
        /\ \E m \in members : ~ga_active[m.ga]

\* C15: every step of a reject leaves the TeamMember rows and the teams
\* (their status included) unchanged; it changes the invites only by turning
\* the pending invite addressed to the requester into a rejected one, and
\* then answers ok; a reject that answers ok has made that change.  So a
\* reject by another user or on an invite that is not pending changes
\* nothing.
C15_RejectFrame ==
    [][ \A w \in Workers :
          (wk'[w].op = "api_reject_invite" /\ wk'[w] # wk[w]) =>
              /\ UNCHANGED <<teams, members>>
              /\ \/ invites' = invites
                 \/ \E v \in invites :
                       /\ v.id = wk[w].inv /\ v.user = wk[w].user
                       /\ v.status = "pending"
                       /\ invites' = (invites \ {v})
                                       \cup {[v EXCEPT !.status = "rejected"]}
                       /\ wk'[w].pc = "done" /\ wk'[w].out = "ok"
              /\ (wk'[w].pc = "done" /\ wk'[w].out = "ok") => invites' # invites ]_vars
C15_Witness ==
    \E w \in Workers :
        /\ Finished(w, {"api_reject_invite"})
        /\ wk[w].out = "ok"
        /\ \E v \in invites : v.status = "rejected"
        /\ \E v \in invites : v.status = "pending"
        /\ \E t \in teams : t.status = "valid"

\* C16: a cancel writes only if the requester leads the invite's team; a
\* cancel by anyone else ends with an error and changes nothing; the
\* leader's cancel of a pending invite answers ok, deletes exactly that
\* invite row and leaves the TeamMember rows, the other invites and the
\* teams (their status included) unchanged.
C16_CancelPending ==
    [][ \A w \in Workers :
          (wk'[w].op = "api_cancel_invite" /\ wk'[w] # wk[w]) =>
              /\ "leader" \notin wk'[w].pre =>
                    /\ UNCHANGED <<teams, members, invites>>
                    /\ wk'[w].pc = "done"
                    /\ wk'[w].out \in {"InviteNotFound", "PermissionDenied"}
              /\ ({"leader", "pending"} \subseteq wk'[w].pre /\ wk'[w].pc = "done") =>
                    /\ wk'[w].out = "ok"
                    /\ \E v \in invites : v.id = wk[w].inv /\ v.status = "pending"
                                           /\ invites' = invites \ {v}
                    /\ UNCHANGED <<teams, members>> ]_vars
C16_Witness ==
    \E w \in Workers :
        /\ Finished(w, {"api_cancel_invite"})
        /\ {"leader", "pending"} \subseteq wk[w].pre
        /\ wk[w].out = "ok"
        /\ invites # {}
        /\ \E t \in teams : Cardinality({ m \in members : m.team = t.id }) > 1

\* C17: when the leader cancels an accepted invite whose user M is a member
\* of the team, the request answers ok, exactly M's TeamMember rows in that
\* team are removed, the invite becomes rejected, and the team's status is
\* the one that follows from the new member count: valid if the count
\* equals team_size, invalid otherwise (a valid team becomes invalid).
C17_CancelAccepted ==
    [][ \A w \in Workers :
          ( /\ wk'[w].op = "api_cancel_invite" /\ wk[w].pc # "done" /\ wk'[w].pc = "done"
            /\ {"leader", "accepted", "member"} \subseteq wk'[w].pre ) =>
              /\ wk'[w].out = "ok"
              /\ members' = { m \in members :
                                ~(m.team = wk[w].team /\ GaRow(m.ga).user = wk[w].tgt) }
              /\ members' # members
              /\ \E v \in invites :
                    /\ v.id = wk[w].inv /\ v.status = "accepted"
                    /\ v.user = wk[w].tgt /\ v.team = wk[w].team
                    /\ invites' = (invites \ {v}) \cup {[v EXCEPT !.status = "rejected"]}
              /\ \E t \in teams :
                    /\ t.id = wk[w].team
                    /\ teams' = (teams \ {t}) \cup
                         {[t EXCEPT !.status =
                             IF Cardinality({ m \in members' : m.team = t.id }) = team_size
                             THEN "valid" ELSE "invalid"]}
                    /\ t.status = "valid" =>
                         \E t2 \in teams' : t2.id = t.id /\ t2.status = "invalid" ]_vars
C17_Witness ==
    \E w \in Workers :
        /\ Finished(w, {"api_cancel_invite"})
        /\ {"leader", "accepted", "member"} \subseteq wk[w].pre
        /\ wk[w].out = "ok"
        /\ \E v \in invites : v.status = "rejected" /\ \E t \in teams :
              /\ t.id = v.team /\ t.status = "invalid"
              /\ Cardinality({ m \in members : m.team = t.id }) = team_size - 1

\* C18: a create_invite for a (user, team) pair that has a rejected invite,
\* the other preconditions holding, answers ok and adds one invite row:
\* pending, for that pair, under a key no row had; the rows that were there,
\* the rejected one among them, stay as they were.
C18_ReinviteAfterReject ==
    [][ \A w \in Workers :
          ( /\ wk'[w].op = "create_invite" /\ wk[w].pc # "done" /\ wk'[w].pc = "done"
            /\ "reinvite" \in wk'[w].pre ) =>
              /\ wk'[w].out = "ok"
              /\ \E n \in invites' :
                    /\ n.id \notin { v.id : v \in invites }
                    /\ n.user = wk[w].tgt /\ n.team = wk[w].team /\ n.status = "pending"
                    /\ invites' = invites \cup {n}
              /\ \E v \in invites' : /\ v \in invites /\ v.status = "rejected"
                                      /\ v.user = wk[w].tgt /\ v.team = wk[w].team ]_vars
C18_Witness ==
    \E w \in Workers :
        /\ Finished(w, {"create_invite"})
        /\ "reinvite" \in wk[w].pre
        /\ wk[w].out = "ok"
        /\ \E v1, v2 \in invites :
              /\ v1.user = v2.user /\ v1.team = v2.team /\ v1.id # v2.id
              /\ v1.status = "rejected" /\ v2.status = "pending"

\* The moves of the invites in one step.  A row that stays changes only its
\* status: pending to accepted in an accept, pending to rejected in a
\* reject, accepted to rejected in a cancel; never to pending.  A row goes
\* only as the pending invite a cancel deletes or, if teamDeletion, with its
\* team.  An accept, reject or cancel that arrived for a rejected invite
\* ends with an error and changes nothing.
InviteOps == AcceptOps \cup {"api_reject_invite", "api_cancel_invite"}
InviteMoves(teamDeletion) ==
    /\ \A v \in invites, v2 \in invites' :
          (v.id = v2.id /\ v # v2) =>
              /\ v2.user = v.user /\ v2.team = v.team
              /\ \E w \in Workers :
                    /\ wk'[w] # wk[w]
                    /\ \/ /\ v.status = "pending" /\ v2.status = "accepted"
                          /\ wk'[w].op \in AcceptOps
                       \/ /\ v.status = "pending" /\ v2.status = "rejected"
                          /\ wk'[w].op = "api_reject_invite"
                       \/ /\ v.status = "accepted" /\ v2.status = "rejected"
                          /\ wk'[w].op = "api_cancel_invite"
    /\ \A v \in invites :
          (\A v2 \in invites' : v2.id # v.id) =>
              \/ /\ v.status = "pending"
                 /\ invites' = invites \ {v}
                 /\ \E w \in Workers : wk'[w] # wk[w] /\ wk'[w].op = "api_cancel_invite"
              \/ /\ teamDeletion
                 /\ v.team \in { t.id : t \in teams }
                 /\ v.team \notin { t.id : t \in teams' }
    /\ \A w \in Workers :
          ( /\ wk[w].pc # "done" /\ wk'[w].pc = "done"
            /\ wk'[w].op \in InviteOps /\ "rejected" \in wk'[w].pre ) =>
              /\ wk'[w].out \in {"InviteNotFound", "AlreadyProcessed", "NotPending",
                                 "PermissionDenied", "NothingToCancel"}
              /\ UNCHANGED <<teams, members, invites>>

\* C19 (as stated): an invite leaves pending only by accept, reject or the
\* leader's cancel, which deletes it; an accepted invite changes only by the
\* leader's cancel, to rejected; no invite moves into pending; accept,
\* reject and cancel on a rejected invite fail and change nothing.
C19_StatusOnlyForward == [][InviteMoves(FALSE)]_vars

\* C19 (amended): as above, and in addition an invite of any status goes
\* when its team is deleted.
C19_StatusForwardOrTeamDeleted == [][InviteMoves(TRUE)]_vars
C19_Witness ==
    \E w \in Workers :
        /\ Finished(w, {"leave_team"})
        /\ {"leader", "invites"} \subseteq wk[w].pre
        /\ wk[w].out = "ok"
        /\ \E v \in invites : v.status = "rejected"

\* C20: a leave or kick that removes the leader's row deletes the team with
\* all of its TeamMember rows and invites; one that removes a follower's row
\* deletes only that member's rows; afterwards no TeamMember row or invite
\* refers to a team that is gone and no team has members but no leader.
C20_RemoveLeaderDeletesTeam ==
    [][ \A w \in Workers :
          ( /\ wk[w].pc \in {"leave_apply", "kick_apply"} /\ wk'[w] # wk[w]
            /\ members' # members ) =>
              LET t == wk[w].team
                  gone == members \ members'
              IN  /\ IF \E m \in gone : m.is_leader
                     THEN /\ teams' = { x \in teams : x.id # t }
                          /\ members' = { m \in members : m.team # t }
                          /\ invites' = { v \in invites : v.team # t }
                     ELSE /\ \E g \in GameAccountIds :
                                gone \subseteq { m \in members : m.team = t
                                                   /\ GaRow(m.ga).user = GaRow(g).user }
                          /\ UNCHANGED <<teams, invites>>
                  /\ \A m \in members' : \E x \in teams' : x.id = m.team
                  /\ \A v \in invites' : \E x \in teams' : x.id = v.team
                  /\ \A x \in teams' :
                        (\E m \in members' : m.team = x.id) =>
                            \E m \in members' : m.team = x.id /\ m.is_leader ]_vars

\* C21: team creation is atomic: a step that makes a team row visible makes
\* its leader row (is_leader, order 0) visible in the same step, the team
\* having status invalid; and a creation that ends with an error leaves
\* neither the team row nor a member row of it.
C21_TeamCreationAtomic ==
    [][ /\ \A t \in teams' :
              t.id \notin { x.id : x \in teams } =>
                  /\ t.status = "invalid"
                  /\ \E m \in members' : m.team = t.id /\ m.is_leader /\ m.order = 0
        /\ \A w \in Workers :
              ( /\ wk'[w].op = "new_team_form" /\ wk[w].pc # "done" /\ wk'[w].pc = "done"
                /\ wk'[w].out # "ok" /\ wk[w].team # 0 ) =>
                  /\ \A t \in teams' : t.id # wk[w].team
                  /\ \A m \in members' : m.team # wk[w].team ]_vars

\* C22: Scenario A with team_size 3: a team creation that got as far as the
\* leader's row answers ok and leaves the team with status invalid and its
\* leader as only member; an accept that was valid on arrival answers ok,
\* adds one member to the invite's team, and the team is valid exactly if
\* it then has team_size (3) members: invalid with 2, valid with 3.
C22_ScenarioA ==
    [][ \A w \in Workers :
          /\ ( /\ wk'[w].op = "new_team_form" /\ wk[w].pc # "done" /\ wk'[w].pc = "done"
               /\ wk[w].team # 0 ) =>
                 /\ wk'[w].out = "ok"
                 /\ \E t \in teams' : t.id = wk[w].team /\ t.status = "invalid"
                 /\ \E m \in members' :
                       /\ m.team = wk[w].team /\ m.is_leader /\ m.ga = wk[w].ga
                       /\ \A m2 \in members' : m2.team = wk[w].team => m2 = m
          /\ ( /\ wk'[w].op = "api_accept_invite" /\ wk[w].pc # "done" /\ wk'[w].pc = "done"
               /\ "valid" \in wk'[w].pre ) =>
                 /\ wk'[w].out = "ok"
                 /\ \E v \in invites' : v.id = wk'[w].inv /\ v.status = "accepted"
                       /\ LET n == Cardinality({ m \in members' : m.team = v.team })
                          IN  /\ n = Cardinality({ m \in members : m.team = v.team }) + 1
                              /\ \E t \in teams' : /\ t.id = v.team
                                                    /\ t.status = IF n = ScenarioTeamSize
                                                                  THEN "valid" ELSE "invalid"
      ]_vars

\* C23: a call of _recompute_team_status leaves the team valid exactly if
\* its member count equals team_size and invalid otherwise, changes no
\* other team, no TeamMember row and no invite; a second call with the
\* members unchanged changes nothing.
C23_RecomputeStatus ==
    [][ \A w \in Workers :
          (wk'[w].op = "_recompute_team_status" /\ wk'[w] # wk[w]) =>
              LET t == wk'[w].team
                  n == Cardinality({ m \in members : m.team = t })
              IN  /\ UNCHANGED <<members, invites>>
                  /\ { x.id : x \in teams' } = { x.id : x \in teams }
                  /\ \A x \in teams' :
                        IF x.id = t
                        THEN /\ x.status = "valid" <=> n = team_size
                             /\ x.status = "invalid" <=> n # team_size
                             /\ \E y \in teams : y.id = t /\ x = [y EXCEPT !.status = x.status]
                        ELSE x \in teams
                  /\ wk[w].pc = "recomputed" => teams' = teams ]_vars
C23_Witness ==
    \E w \in Workers :
        /\ Finished(w, {"_recompute_team_status"})
        /\ "stale" \in wk[w].pre
        /\ \E x \in teams : x.status = "invalid" /\ \E m \in members : m.team = x.id

\* C24: no two teams of a tournament have the same team name, whatever
\* the interleaving of the two workers; a team save that meets a team of
\* that name fails and writes nothing, and a rename that arrived with a
\* name another team has does not succeed and leaves teams and members as
\* they were.
TeamNamesUnique(tms) ==
    \A x, y \in tms : (x.tournament = y.tournament /\ x.team_name = y.team_name) => x = y
C24_UniqueTeamName ==
    [][ /\ TeamNamesUnique(teams')
        /\ \A w \in Workers :
              /\ ( /\ wk[w].op = "new_team_form" /\ wk[w].pc = "team_save"
                   /\ wk'[w] # wk[w]
                   /\ \E x \in teams : x.team_name = wk[w].name ) =>
                     /\ wk'[w].pc = "done" /\ wk'[w].out = "TeamSaveError"
                     /\ UNCHANGED <<teams, members>>
              /\ ( /\ wk'[w].op = "edit_team_form" /\ wk'[w] # wk[w]
                   /\ "name_used" \in wk'[w].pre ) =>
                     /\ wk'[w].out # "ok"
                     /\ UNCHANGED <<teams, members>> ]_vars
C24_Witness ==
    \E w \in Workers :
        /\ Finished(w, {"new_team_form"})
        /\ wk[w].out = "TeamSaveError"
        /\ "name_free" \in wk[w].pre
        /\ \E w2 \in Workers, x \in teams :
              /\ wk[w2].op = "new_team_form" /\ wk[w2].pc # "done"
              /\ wk[w2].team = x.id /\ members = {}

\* C25: no two active game accounts of a game have in-game names that are
\* equal ignoring case, no in-game name is empty, and a user has at most one
\* active account per game, whatever the interleaving of the two workers.
C25_ActiveNamesUnique ==
    /\ \A a, b \in accounts :
          (a.active /\ b.active /\ a.game = b.game
           /\ iexact(a.ingame_name, b.ingame_name)) => a = b
    /\ \A a \in accounts : a.ingame_name # ""
    /\ \A a, b \in accounts :
          (a.active /\ b.active /\ a.game = b.game /\ a.user = b.user) => a = b

\* C26: in every state a team's status is valid if and only if its member
\* count equals team_size.
C26_StatusMatchesCount ==
    \A t \in teams :
        t.status = "valid" <=> Cardinality({ m \in members : m.team = t.id }) = team_size

\* C27: in every state the user of every accepted invite has a TeamMember
\* row, through one of their game accounts, in the invite's team.
C27_AcceptedImpliesMember ==
    \A v \in invites :
        v.status = "accepted" =>
            \E m \in members : m.team = v.team /\ GaRow(m.ga).user = v.user

\* C28: the cancel of an accepted invite removes only the membership made
\* by accepting that invite: if the user holds a newer accepted invite to
\* the same team (the keys of the accepted invites are in the order of their
\* creation), the cancel of the older one removes no TeamMember row; and no
\* cancel removes a leader's row or a row of another team.
C28_CancelRemovesOwnMembership ==
    [][ \A w \in Workers :
          (wk[w].op = "api_cancel_invite" /\ wk[w].pc = "cancel_apply"
           /\ wk'[w] # wk[w]) =>
              /\ ( /\ wk[w].st = "accepted"
                   /\ \E v2 \in invites :
                         /\ v2.id > wk[w].inv /\ v2.status = "accepted"
                         /\ v2.user = wk[w].tgt /\ v2.team = wk[w].team ) =>
                     members' = members
              /\ \A m \in members \ members' : ~m.is_leader /\ m.team = wk[w].team ]_vars

\* C29: an accept of a pending invite by another user than the one it is
\* addressed to (for the model method: with an account of another user) is
\* refused before a member is built, even if the account is a valid one of
\* the requester: no TeamMember row is made and the invite stays as it was.
C29_OnlyAddresseeAccepts ==
    [][ \A w \in Workers :
          ( /\ wk[w].pc # "done" /\ wk'[w].pc = "done"
            /\ wk'[w].op \in AcceptOps /\ "other" \in wk'[w].pre ) =>
              /\ wk'[w].out \in {"InviteNotFound", "Closed", "TeamFull", "InvalidAccount"}
              /\ wk'[w].op = "api_accept_invite" => wk'[w].out = "InviteNotFound"
              /\ UNCHANGED <<teams, members, invites>> ]_vars
C29_Witness ==
    \E w \in Workers :
        /\ Finished(w, {"api_accept_invite"})
        /\ {"other", "own_account"} \subseteq wk[w].pre
        /\ wk[w].out = "InviteNotFound"
        /\ \E v \in invites : /\ v.id = wk[w].inv /\ v.status = "pending"
                               /\ Cardinality({ m \in members : m.team = v.team }) < team_size

\* The requests follow the functions: a finished accept that passed its
\* first checks answers what the function gives on the rows it ran on.
AcceptFollowsResult ==
    [][ \A w \in Workers :
          ( /\ wk[w].op \in AcceptOps /\ wk[w].pc \in {"accept_clean", "accept_save"}
            /\ wk'[w].pc = "done" ) =>
              LET r == wk[w]
                  res == IF r.op = "api_accept_invite"
                         THEN api_accept_invite_result(r.user, r.inv, r.ga)
                         ELSE TournamentInvite_accept_result(r.inv, r.ga)
              IN  /\ wk'[w].out = res.out
                  /\ members' = res.members /\ invites' = res.invites /\ teams' = res.teams ]_vars

====
